---- MODULE Spec2Model ----
(***************************************************************************)
(* h3-quinn: the adapter between quinn's QUIC streams and the h3 quic      *)
(* traits (src/h3-quinn/src/lib.rs).                                       *)
(*                                                                         *)
(*   RecvStream  offset, chunks        poll_data, stop_sending            *)
(*   SendStream  writing               send_data, poll_ready,             *)
(*                                     poll_finish, reset                 *)
(*   BidiStream  send, recv            split, and the calls it delegates   *)
(*   Connection  opening_bi/_uni       poll_open_*, poll_accept_*         *)
(*                                                                         *)
(* quinn itself is not part of the repository: every poll of a quinn       *)
(* future is an input of the action that polls it, drawn from the          *)
(* outcomes that future can produce.                                       *)
(***************************************************************************)
EXTENDS Integers, Sequences, FiniteSets

VARIABLES
    offset,      \* RecvStream.offset: bytes already yielded to the caller
    chunks,      \* RecvStream.chunks: BTreeMap<u64, Bytes>, start offset -> data
    rret,        \* what the last poll_data returned, and from which chunk
    yielded,     \* every byte poll_data has returned so far, in order
    wire,        \* quinn's receive side: the events read_unordered still delivers
    arrivals,    \* the whole arrival script of this run (wire at the start)
    writing,     \* SendStream.writing: Option<B>
    sent,        \* the bytes quinn's send stream has accepted, in order
    sret,        \* what the last SendStream call returned
    wlog,        \* the bytes quinn accepted since send_data last stored a buffer
    bidi,        \* the BidiStream holding the two halves: "whole" or "split"
    opening_bi,  \* Connection.opening_bi: Option<OpenBi>
    opening_uni, \* Connection.opening_uni: Option<OpenUni>
    opens,       \* how often conn.open_bi() / conn.open_uni() were called
    accepted,    \* how many incoming streams were handed out, per direction
    cret         \* what the last Connection call returned

rvars == <<offset, chunks, rret, yielded, wire, arrivals>>
svars == <<writing, sent, sret, wlog>>
cvars == <<opening_bi, opening_uni, opens, accepted, cret>>
vars == <<offset, chunks, rret, yielded, wire, arrivals,
          writing, sent, sret, wlog, bidi,
          opening_bi, opening_uni, opens, accepted, cret>>

(***************************************************************************)
(* Bounds.                                                                 *)
(***************************************************************************)
\* the stream carries at most this many bytes
MaxStream == 4
\* read_unordered delivers at most this many chunks in a run
MaxArrivals == 3
\* a buffer handed to send_data holds at most this many bytes
MaxBuf == 2
\* quinn's send stream accepts at most this many bytes in a run
MaxSent == 4
\* each incoming source hands out at most this many streams in a run
MaxAccept == 2

(***************************************************************************)
(* The byte stream and its chunks.                                         *)
(***************************************************************************)
\* the byte the peer wrote at stream position i
StreamByte(i) == 65 + i

\* the stream's bytes [from, from + len)
StreamBytes(from, len) == [i \in 1..len |-> StreamByte(from + i - 1)]

\* what read_unordered can yield: (Bytes, u64), the data with its stream offset;
\* a chunk holds at least one byte
Chunk(off, len) == [kind |-> "Chunk", off |-> off, data |-> StreamBytes(off, len)]

Chunks ==
    {Chunk(d[1], d[2]) :
        d \in {e \in (0..(MaxStream - 1)) \X (1..MaxStream) : e[1] + e[2] <= MaxStream}}

ReadErr == [kind |-> "Err"]

SeqsUpTo(S, n) == UNION {[1..k -> S] : k \in 0..n}

\* arbitrary arrivals: any order, overlaps and duplicates, possibly ended by a
\* read error (a reset, a lost connection)
Scripts == SeqsUpTo(Chunks, MaxArrivals) \cup
           {Append(s, ReadErr) : s \in SeqsUpTo(Chunks, MaxArrivals)}

RECURSIVE TotalLen(_)
TotalLen(s) == IF s = <<>> THEN 0 ELSE Len(Head(s).data) + TotalLen(Tail(s))

Covers(c, b) == c.off <= b /\ b < c.off + Len(c.data)

\* the chunks of s are distinct, do not overlap and cover [0, TotalLen(s))
IsPartition(s) ==
    /\ s # <<>>
    /\ \A b \in 0..(TotalLen(s) - 1) : \E i \in 1..Len(s) : Covers(s[i], b)
    /\ \A i, j \in 1..Len(s) :
         i # j => \A b \in 0..(MaxStream - 1) : ~(Covers(s[i], b) /\ Covers(s[j], b))

Partitions == {s \in SeqsUpTo(Chunks, MaxStream) : IsPartition(s)}

(***************************************************************************)
(* Error codes: u64 and quinn's VarInt.                                    *)
(***************************************************************************)
\* a u64 is written as three limbs <<a, b, c>>, its value a * 2^44 + b * 2^22 + c
\* with a < 2^20 and b, c < 2^22
Limb == 2^22
TopLimb == 2^20
U64(a, b, c) == <<a, b, c>>
U64Max == U64(TopLimb - 1, Limb - 1, Limb - 1)

\* VarInt::MAX = 2^62 - 1
VarIntMax == U64(2^18 - 1, Limb - 1, Limb - 1)

\* x <= y on u64
Leq(x, y) ==
    \/ x[1] < y[1]
    \/ x[1] = y[1] /\ x[2] < y[2]
    \/ x[1] = y[1] /\ x[2] = y[2] /\ x[3] <= y[3]

\* x + 1 on u64, for x < 2^64 - 1
Succ(x) ==
    IF x[3] < Limb - 1 THEN U64(x[1], x[2], x[3] + 1)
    ELSE IF x[2] < Limb - 1 THEN U64(x[1], x[2] + 1, 0)
    ELSE U64(x[1] + 1, 0, 0)

\* the codes a caller passes: 0, 2^62 - 1, 2^62, 2^64 - 1
Codes == {U64(0, 0, 0), VarIntMax, Succ(VarIntMax), U64Max}

NoCode == <<>>

(***************************************************************************)
(* bytes::Bytes and BTreeMap<u64, Bytes>.                                  *)
(***************************************************************************)
None == [kind |-> "None"]
Some(x) == [kind |-> "Some", val |-> x]

\* VarInt::from_u64: Err(VarIntBoundsExceeded) above 2^62 - 1
FromU64(x) == IF Leq(x, VarIntMax) THEN Some(x) ELSE None

\* Buf::advance(cnt) on Bytes asserts cnt <= len ("cannot advance past
\* `remaining`") and then drops the first cnt bytes. cnt is
\* (self.offset - offset) as usize: usize is taken to be 64 bits wide, so the
\* cast keeps the value
CanAdvance(data, cnt) == cnt <= Len(data)
AdvanceKeep(data, cnt) == data
Advance(data, cnt) == SubSeq(data, cnt + 1, Len(data))

EmptyMap == <<>>

\* BTreeMap::insert: a value already stored under the key is replaced
Insert(map, key, data) ==
    [k \in DOMAIN map \cup {key} |-> IF k = key THEN data ELSE map[k]]

\* BTreeMap::remove
Remove(map, key) == [k \in DOMAIN map \ {key} |-> map[k]]

NoKey == -1

FirstKey(map) == CHOOSE k \in DOMAIN map : \A j \in DOMAIN map : k <= j

\* keys().take_while(|x| **x <= self.offset).next().copied()
ChunkKeyStrict(map, cursor) ==
    IF DOMAIN map # {} /\ FirstKey(map) < cursor THEN FirstKey(map) ELSE NoKey
ChunkKey(map, cursor) ==
    IF DOMAIN map # {} /\ FirstKey(map) <= cursor THEN FirstKey(map) ELSE NoKey

(***************************************************************************)
(* RecvStream.                                                             *)
(***************************************************************************)
\* one poll of self.stream.read_unordered(): the outcome and what the
\* transport still holds. A chunk is delivered once; a read error may repeat.
ReadUnordered ==
    {<<[kind |-> "Pending"], wire>>} \cup
    (IF wire = <<>> THEN {<<[kind |-> "None"], wire>>}
     ELSE IF Head(wire).kind = "Err" THEN {<<ReadErr, wire>>, <<ReadErr, Tail(wire)>>}
     ELSE {<<Head(wire), Tail(wire)>>})

\* rret: kind is the Poll<Result<Option<Bytes>>> returned (Panic: the call
\* unwound), data the bytes returned, read the outcome of read_unordered in that
\* call, src/start/clen the chunk the call consumed (where it came from, its
\* stream offset and its length before trimming)
Ret(kind, data, read, src, start, clen) ==
    [kind |-> kind, data |-> data, read |-> read, src |-> src,
     start |-> start, clen |-> clen, arg |-> NoCode, sig |-> NoCode, tres |-> "none"]

\* chunk.advance((self.offset - offset) as usize); self.offset += chunk.len();
\* return Poll::Ready(Ok(Some(chunk)))
YieldUntrimmedLen(chunk, start, map, read, src) ==
    IF CanAdvance(chunk, offset - start)
    THEN LET trimmed == Advance(chunk, offset - start) IN
         /\ offset' = offset + Len(chunk)
         /\ yielded' = yielded \o trimmed
         /\ chunks' = map
         /\ rret' = Ret("Some", trimmed, read, src, start, Len(chunk))
    ELSE /\ rret' = Ret("Panic", <<>>, read, src, start, Len(chunk))
         /\ chunks' = map
         /\ UNCHANGED <<offset, yielded>>

Yield(chunk, start, map, read, src) ==
    IF CanAdvance(chunk, offset - start)
    THEN LET trimmed == Advance(chunk, offset - start) IN
         /\ offset' = offset + Len(trimmed)
         /\ yielded' = yielded \o trimmed
         /\ chunks' = map
         /\ rret' = Ret("Some", trimmed, read, src, start, Len(chunk))
    ELSE /\ rret' = Ret("Panic", <<>>, read, src, start, Len(chunk))
         /\ chunks' = map
         /\ UNCHANGED <<offset, yielded>>

\* the second half of poll_data: a buffered chunk at or below the cursor
Drain(map, ret, read) ==
    LET key == ChunkKey(map, offset) IN
    IF key # NoKey
    THEN Yield(map[key], key, Remove(map, key), read, "buffered")
    ELSE /\ rret' = Ret(ret, <<>>, read, "none", NoKey, 0)
         /\ chunks' = map
         /\ UNCHANGED <<offset, yielded>>

poll_data ==
    /\ rret.kind # "Panic"
    /\ \E r \in ReadUnordered :
         LET out == r[1] IN
         /\ wire' = r[2]
         /\ CASE out.kind = "Pending" -> Drain(chunks, "Pending", "Pending")
              [] out.kind = "None" -> Drain(chunks, "None", "None")
              [] out.kind = "Err" ->
                   /\ rret' = Ret("Err", <<>>, "Err", "none", NoKey, 0)
                   /\ UNCHANGED <<offset, chunks, yielded>>
              [] out.kind = "Chunk" /\ out.off <= offset ->
                   Yield(out.data, out.off, chunks, "Chunk", "transport")
              [] OTHER ->
                   Drain(Insert(chunks, out.off, out.data), "Pending", "Chunk")
    /\ UNCHANGED arrivals

\* RecvStream::new
RecvNew ==
    /\ offset = 0
    /\ chunks = EmptyMap
    /\ yielded = <<>>
    /\ rret = Ret("New", <<>>, "none", "none", NoKey, 0)

RecvIdle ==
    /\ RecvNew
    /\ wire = <<>>
    /\ arrivals = <<>>

RecvInit ==
    /\ RecvNew
    /\ wire \in Scripts
    /\ arrivals = wire

RecvInitPartition ==
    /\ RecvNew
    /\ wire \in Partitions
    /\ arrivals = wire

\* a short arrival script: two bytes, out of order
BidiScripts == {<<Chunk(1, 1), Chunk(0, 1)>>}

RecvInitBidi ==
    /\ RecvNew
    /\ wire \in BidiScripts
    /\ arrivals = wire

\* one call of quinn's stop() / reset(): done, or refused (UnknownStream)
Signal == {"Ok", "Err"}

\* the value of a stop_sending / reset call: arg the u64 handed in, sig the
\* VarInt passed to quinn, tres what quinn's call returned
SigRet(ret, kind, arg, sig, tres) ==
    [ret EXCEPT !.kind = kind, !.arg = arg, !.sig = sig, !.tres = tres]

\* let _ = self.stream.stop(VarInt::from_u64(error_code).expect(..))
stop_sending ==
    /\ rret.kind # "Panic"
    /\ \E error_code \in Codes, tres \in Signal :
         LET v == FromU64(error_code) IN
         rret' = IF v = None
                 THEN SigRet(Ret("Panic", <<>>, "none", "none", NoKey, 0), "Panic",
                             error_code, NoCode, "none")
                 ELSE SigRet(Ret("Stop", <<>>, "none", "none", NoKey, 0), "Stop",
                             error_code, v.val, tres)
    /\ UNCHANGED <<offset, chunks, yielded, wire, arrivals>>

(***************************************************************************)
(* SendStream.                                                             *)
(***************************************************************************)
\* A buffer B: Buf is the sequence of its contiguous slices (one slice for
\* Bytes, more for a Chain); its bytes are the slices end to end.
RECURSIVE Remaining(_)
Remaining(data) ==
    IF data = <<>> THEN <<>> ELSE Head(data) \o Remaining(Tail(data))

\* Buf::bytes(): the first contiguous slice that holds a byte, not the whole
\* of what remains
RECURSIVE BufBytes(_)
BufBytes(data) ==
    IF data = <<>> THEN <<>>
    ELSE IF Head(data) # <<>> THEN Head(data)
    ELSE BufBytes(Tail(data))

\* the bytes of a buffer of n bytes: 1, 2, .., n
Payload(n) == [i \in 1..n |-> i]

\* the ways to cut s into non-empty slices
RECURSIVE Slicings(_)
Slicings(s) ==
    IF s = <<>> THEN {<<>>}
    ELSE UNION {{<<SubSeq(s, 1, k)>> \o r : r \in Slicings(SubSeq(s, k + 1, Len(s)))} :
                k \in 1..Len(s)}

\* the buffers a caller hands to send_data: up to MaxBuf bytes, in one slice
\* or several
Buffers == UNION {Slicings(Payload(n)) : n \in 0..MaxBuf}

\* sret: op the call, kind what it returned, arg the buffer handed in, wrote
\* how many bytes quinn accepted during the call
SRet(op, kind, arg, wrote) ==
    [op |-> op, kind |-> kind, arg |-> arg, wrote |-> wrote,
     sig |-> NoCode, tres |-> "none"]

\* SendStream::new
SendIdle ==
    /\ writing = None
    /\ sent = <<>>
    /\ sret = SRet("new", "Ok", <<>>, 0)
    /\ wlog = <<>>

send_data_overwrite ==
    \E data \in Buffers :
        /\ writing' = Some(data)
        /\ sret' = SRet("send_data", "Ok", data, 0)
        /\ wlog' = <<>>
        /\ UNCHANGED sent

send_data ==
    \E data \in Buffers :
        IF writing.kind = "Some"
        THEN /\ sret' = SRet("send_data", "NotReady", data, 0)
             /\ UNCHANGED <<writing, sent, wlog>>
        ELSE /\ writing' = Some(data)
             /\ sret' = SRet("send_data", "Ok", data, 0)
             /\ wlog' = <<>>
             /\ UNCHANGED sent

\* one poll of a fresh self.stream.write_all(slice): quinn accepts the first k
\* bytes of the slice it is handed; all of them is Ready(Ok), fewer is Pending
\* or a write error
WriteAll(data) ==
    {<<Len(data), "Ok">>} \cup
    {<<k, res>> : k \in 0..(Len(data) - 1), res \in {"Pending", "Err"}}

\* write_all is handed data.bytes(); on Ready(Ok) the slot is emptied, whatever
\* the buffer holds beyond that slice
poll_ready ==
    IF writing.kind = "Some"
    THEN \E w \in WriteAll(BufBytes(writing.val)) :
            /\ Len(sent) + w[1] <= MaxSent
            /\ sent' = sent \o SubSeq(BufBytes(writing.val), 1, w[1])
            /\ wlog' = wlog \o SubSeq(BufBytes(writing.val), 1, w[1])
            /\ sret' = SRet("poll_ready", w[2], <<>>, w[1])
            /\ writing' = IF w[2] = "Ok" THEN None ELSE writing
    ELSE /\ writing' = None
         /\ sret' = SRet("poll_ready", "Ok", <<>>, 0)
         /\ UNCHANGED <<sent, wlog>>

\* one poll of a fresh self.stream.finish()
Finish == {"Pending", "Ok", "Err"}

\* self.stream.finish().poll_unpin(cx).map_err(Into::into)
poll_finish ==
    /\ \E out \in Finish : sret' = SRet("poll_finish", out, <<>>, 0)
    /\ UNCHANGED <<writing, sent, wlog>>

\* let _ = self.stream.reset(VarInt::from_u64(reset_code).unwrap_or(VarInt::MAX))
reset_passthrough ==
    /\ \E reset_code \in Codes, tres \in Signal :
         sret' = SigRet(SRet("reset", "Done", <<>>, 0), "Done", reset_code,
                        reset_code, tres)
    /\ UNCHANGED <<writing, sent, wlog>>

reset ==
    /\ \E reset_code \in Codes, tres \in Signal :
         LET v == FromU64(reset_code) IN
         sret' = SigRet(SRet("reset", "Done", <<>>, 0), "Done", reset_code,
                        IF v = None THEN VarIntMax ELSE v.val, tres)
    /\ UNCHANGED <<writing, sent, wlog>>

(***************************************************************************)
(* Connection.                                                             *)
(***************************************************************************)
\* an in-flight OpenBi / OpenUni: id numbers the conn.open_*() call that made
\* it, done says that a poll of it already returned Ready
OpenOp(id, done) == [id |-> id, done |-> done]

\* RecvStream::new and SendStream::new
NewRecvStream == [offset |-> 0, chunks |-> EmptyMap]
NewSendStream == [writing |-> None]
NewBidiStream == [send |-> NewSendStream, recv |-> NewRecvStream]
NoStream == [none |-> TRUE]

\* cret: op the call, kind what it returned, stream the handle returned, polled
\* the open operation the call polled (0: none), resumed whether that operation
\* was already in the slot when the call began, repoll whether it had already
\* completed before the call
CRet(op, kind, stream, polled, resumed, repoll) ==
    [op |-> op, kind |-> kind, stream |-> stream, polled |-> polled,
     resumed |-> resumed, repoll |-> repoll, src |-> "none"]

\* Connection::new
ConnIdle ==
    /\ opening_bi = None
    /\ opening_uni = None
    /\ opens = [bi |-> 0, uni |-> 0]
    /\ accepted = [bi |-> 0, uni |-> 0]
    /\ cret = CRet("new", "Ok", NoStream, 0, FALSE, FALSE)

\* one poll of an OpenBi / OpenUni
PollOpen == {"Pending", "Ok", "Err"}

\* one poll of incoming_bi.next() / incoming_uni.poll_next()
PollIncoming == {"Pending", "Some", "Err", "None"}

\* what an accept poll makes of its source's poll: ready! passes Pending on,
\* None is Ready(Ok(None)), Some(Err(e)) leaves through `?`, Some(Ok(s)) is
\* Ready(Ok(Some(stream)))
Accepted(out) ==
    CASE out = "Pending" -> "Pending"
      [] out = "None" -> "OkNone"
      [] out = "Err" -> "Err"
      [] out = "Some" -> "OkSome"

\* src: what the source of incoming streams gave
AcceptRet(op, out, stream) ==
    [CRet(op, Accepted(out), IF out = "Some" THEN stream ELSE NoStream,
          0, FALSE, FALSE) EXCEPT !.src = out]

poll_accept_bidi_stream_clears ==
    \E out \in PollIncoming :
        /\ out = "Some" => accepted.bi < MaxAccept
        /\ accepted' = IF out = "Some" THEN [accepted EXCEPT !.bi = @ + 1] ELSE accepted
        /\ cret' = AcceptRet("poll_accept_bidi_stream", out, NewBidiStream)
        /\ opening_bi' = None
        /\ UNCHANGED <<opening_uni, opens>>

poll_accept_bidi_stream ==
    \E out \in PollIncoming :
        /\ out = "Some" => accepted.bi < MaxAccept
        /\ accepted' = IF out = "Some" THEN [accepted EXCEPT !.bi = @ + 1] ELSE accepted
        /\ cret' = AcceptRet("poll_accept_bidi_stream", out, NewBidiStream)
        /\ UNCHANGED <<opening_bi, opening_uni, opens>>

poll_open_bidi_stream_reopen ==
    LET op == OpenOp(opens.bi + 1, FALSE) IN
    \E out \in PollOpen :
        /\ opens.bi < 3
        /\ opens' = [opens EXCEPT !.bi = op.id]
        /\ opening_bi' = Some(OpenOp(op.id, out # "Pending"))
        /\ cret' = CRet("poll_open_bidi_stream", out,
                        IF out = "Ok" THEN NewBidiStream ELSE NoStream, op.id,
                        FALSE, FALSE)
        /\ UNCHANGED <<opening_uni, accepted>>

poll_open_bidi_stream ==
    LET op == IF opening_bi = None THEN OpenOp(opens.bi + 1, FALSE) ELSE opening_bi.val IN
    \E out \in PollOpen :
        /\ opens' = IF opening_bi = None THEN [opens EXCEPT !.bi = op.id] ELSE opens
        /\ opening_bi' = Some(OpenOp(op.id, op.done \/ out # "Pending"))
        /\ cret' = CRet("poll_open_bidi_stream", out,
                        IF out = "Ok" THEN NewBidiStream ELSE NoStream, op.id,
                        opening_bi # None, op.done)
        /\ UNCHANGED <<opening_uni, accepted>>

poll_accept_recv_stream ==
    \E out \in PollIncoming :
        /\ out = "Some" => accepted.uni < MaxAccept
        /\ accepted' = IF out = "Some" THEN [accepted EXCEPT !.uni = @ + 1] ELSE accepted
        /\ cret' = AcceptRet("poll_accept_recv_stream", out, NewRecvStream)
        /\ UNCHANGED <<opening_bi, opening_uni, opens>>

poll_open_send_stream ==
    LET op == IF opening_uni = None THEN OpenOp(opens.uni + 1, FALSE) ELSE opening_uni.val IN
    \E out \in PollOpen :
        /\ opens' = IF opening_uni = None THEN [opens EXCEPT !.uni = op.id] ELSE opens
        /\ opening_uni' = Some(OpenOp(op.id, op.done \/ out # "Pending"))
        /\ cret' = CRet("poll_open_send_stream", out,
                        IF out = "Ok" THEN NewSendStream ELSE NoStream, op.id,
                        opening_uni # None, op.done)
        /\ UNCHANGED <<opening_bi, accepted>>

(***************************************************************************)
(* BidiStream.                                                             *)
(***************************************************************************)
\* BidiStream::split: (self.send, self.recv), the halves as they are
split ==
    /\ bidi = "whole"
    /\ rret.kind # "Panic"
    /\ bidi' = "split"
    /\ UNCHANGED <<rvars, svars>>

\* the calls a BidiStream passes to self.recv and self.send
BidiStream_poll_data == poll_data /\ UNCHANGED svars
BidiStream_stop_sending == stop_sending /\ UNCHANGED svars
BidiStream_poll_ready == poll_ready /\ UNCHANGED rvars
BidiStream_poll_finish == poll_finish /\ UNCHANGED rvars
BidiStream_reset_both == reset /\ stop_sending
BidiStream_reset == reset /\ UNCHANGED rvars
BidiStream_send_data == send_data /\ UNCHANGED rvars

(***************************************************************************)
(* Specifications.                                                         *)
(***************************************************************************)
RecvNext == poll_data /\ UNCHANGED <<svars, cvars, bidi>>

SendNext ==
    \/ send_data /\ UNCHANGED <<rvars, cvars, bidi>>
    \/ poll_ready /\ UNCHANGED <<rvars, cvars, bidi>>
    \/ poll_finish /\ UNCHANGED <<rvars, cvars, bidi>>
    \/ reset /\ UNCHANGED <<rvars, cvars, bidi>>

ConnNext ==
    \/ poll_accept_bidi_stream /\ UNCHANGED <<rvars, svars, bidi>>
    \/ poll_open_bidi_stream /\ UNCHANGED <<rvars, svars, bidi>>
    \/ poll_accept_recv_stream /\ UNCHANGED <<rvars, svars, bidi>>
    \/ poll_open_send_stream /\ UNCHANGED <<rvars, svars, bidi>>

\* a bidirectional stream: whole, its calls go through the BidiStream and end
\* with the call that unwinds; split, each half is called on its own
BidiNext ==
    \/ split /\ UNCHANGED cvars
    \/ bidi = "whole" /\ rret.kind # "Panic" /\ BidiStream_poll_data
         /\ UNCHANGED <<cvars, bidi>>
    \/ bidi = "whole" /\ rret.kind # "Panic" /\ BidiStream_stop_sending
         /\ UNCHANGED <<cvars, bidi>>
    \/ bidi = "whole" /\ rret.kind # "Panic" /\ BidiStream_poll_ready
         /\ UNCHANGED <<cvars, bidi>>
    \/ bidi = "whole" /\ rret.kind # "Panic" /\ BidiStream_poll_finish
         /\ UNCHANGED <<cvars, bidi>>
    \/ bidi = "whole" /\ rret.kind # "Panic" /\ BidiStream_reset
         /\ UNCHANGED <<cvars, bidi>>
    \/ bidi = "whole" /\ rret.kind # "Panic" /\ BidiStream_send_data
         /\ UNCHANGED <<cvars, bidi>>
    \/ bidi = "split" /\ poll_data /\ UNCHANGED <<svars, cvars, bidi>>
    \/ bidi = "split" /\ stop_sending /\ UNCHANGED <<svars, cvars, bidi>>
    \/ bidi = "split" /\ poll_ready /\ UNCHANGED <<rvars, cvars, bidi>>
    \/ bidi = "split" /\ poll_finish /\ UNCHANGED <<rvars, cvars, bidi>>
    \/ bidi = "split" /\ reset /\ UNCHANGED <<rvars, cvars, bidi>>
    \/ bidi = "split" /\ send_data /\ UNCHANGED <<rvars, cvars, bidi>>

Init == RecvInit /\ SendIdle /\ ConnIdle /\ bidi = "split"

Next == RecvNext \/ SendNext \/ ConnNext

\* a connection with one receive stream and one send stream
Spec == Init /\ [][Next]_vars

\* a receive stream fed arbitrary arrivals
SpecRecv == Init /\ [][RecvNext]_vars

\* a receive stream fed a partition of [0, N) in some order, then the end
InitPartition == RecvInitPartition /\ SendIdle /\ ConnIdle /\ bidi = "split"
SpecPartition == InitPartition /\ [][RecvNext]_vars

\* a send stream, and a connection, with no receive stream being polled
InitIdle == RecvIdle /\ SendIdle /\ ConnIdle /\ bidi = "split"
SpecSend == InitIdle /\ [][SendNext]_vars
SpecConn == InitIdle /\ [][ConnNext]_vars

\* a bidirectional stream as poll_open_bidi_stream / poll_accept_bidi_stream
\* return it, its receive side fed a short arrival script
InitBidi == RecvInitBidi /\ SendIdle /\ ConnIdle /\ bidi = "whole"
SpecBidi == InitBidi /\ [][BidiNext]_vars

(***************************************************************************)
(* Properties of RecvStream::poll_data.                                    *)
(***************************************************************************)
\* C1: order invariant. The chunks of a partition of [0, N), delivered in any
\* order and followed by the end of the stream: what poll_data has yielded is at
\* every moment the bytes [0, offset) in order, no poll fails, a poll after the
\* last arrival finds the chunk that continues the stream, and end-of-stream is
\* reported only once all N bytes were yielded.
C1_OrderInvariant ==
    /\ rret.kind \notin {"Panic", "Err"}
    /\ yielded = StreamBytes(0, offset)
    /\ (wire = <<>> /\ offset < TotalLen(arrivals)) => offset \in DOMAIN chunks
    /\ rret.kind = "None" => yielded = StreamBytes(0, TotalLen(arrivals))

\* three chunks arrived in reverse order and the whole stream was yielded
C1_Witness ==
    /\ rret.kind = "None"
    /\ Len(arrivals) = 3
    /\ arrivals[1].off > arrivals[2].off
    /\ arrivals[2].off > arrivals[3].off
    /\ yielded = StreamBytes(0, TotalLen(arrivals))

\* C2: contiguity under arbitrary arrivals (any order, overlaps, duplicates).
\* Every chunk poll_data returns holds exactly the bytes [c, c + len) for the
\* cursor c before the call, the cursor afterwards is c + len, and so the bytes
\* yielded are the stream's bytes [0, offset), none twice, none out of order.
C2_Contiguity ==
    [][rret'.kind = "Some" =>
         /\ rret'.data = StreamBytes(offset, Len(rret'.data))
         /\ offset' = offset + Len(rret'.data)
         /\ yielded' = yielded \o rret'.data
         /\ yielded' = StreamBytes(0, offset')]_rvars

\* a buffered chunk that started below the cursor was returned, trimmed
C2_Witness ==
    /\ rret.kind = "Some"
    /\ rret.src = "buffered"
    /\ Len(rret.data) > 0
    /\ Len(rret.data) < rret.clen
    /\ yielded = StreamBytes(0, offset)

\* C3: overlap trimming. A consumed chunk (from the transport or from the
\* mapping) that starts at O below the cursor C: if it extends past C the poll
\* yields exactly its suffix from C; if it lies fully below C (O + len < C) the
\* poll yields a zero-length chunk, leaves the cursor alone and does not fail.
C3_OverlapTrimming ==
    [][(rret'.src # "none" /\ rret'.start < offset) =>
         /\ rret'.start + rret'.clen > offset =>
              /\ rret'.kind = "Some"
              /\ rret'.data = StreamBytes(offset, rret'.start + rret'.clen - offset)
         /\ rret'.start + rret'.clen < offset =>
              /\ rret'.kind = "Some"
              /\ rret'.data = <<>>
              /\ offset' = offset]_rvars

\* C8: end-of-stream reporting. In a poll whose transport read reports the end of
\* the stream, end-of-stream is returned exactly if no buffered chunk has a key
\* <= the cursor, and otherwise such a chunk is returned, trimmed to the cursor.
\* Chunks [0,2),[2,4) in order, then the end: end-of-stream comes after both.
C8_EndOfStream ==
    /\ [](arrivals = <<Chunk(0, 2), Chunk(2, 2)>> /\ rret.kind = "None"
            => yielded = StreamBytes(0, 4))
    /\ [][rret'.read = "None" =>
            /\ rret'.kind = "None" <=> \A k \in DOMAIN chunks : k > offset
            /\ (\E k \in DOMAIN chunks : k <= offset) =>
                 /\ rret'.kind = "Some"
                 /\ rret'.src = "buffered"
                 /\ rret'.data = StreamBytes(offset, Len(rret'.data))]_rvars

\* C9: buffered drain. A chunk that arrives ahead of the cursor is stored in the
\* mapping and not returned by that poll; a buffered chunk whose key is <= the
\* cursor is returned, trimmed to the cursor, by the next poll whose transport
\* read is Pending or end-of-stream.
C9_BufferedDrain ==
    [][/\ (/\ rret'.read = "Chunk"
           /\ wire # <<>>
           /\ Head(wire).kind = "Chunk"
           /\ Head(wire).off > offset) =>
              /\ Head(wire).off \in DOMAIN chunks'
              /\ chunks'[Head(wire).off] = Head(wire).data
       /\ \A k \in DOMAIN chunks :
            (k <= offset /\ rret'.read \in {"Pending", "None"}) =>
              /\ rret'.kind = "Some"
              /\ rret'.start = k
              /\ rret'.data
                   = StreamBytes(offset, k + Len(chunks[k]) - offset)]_rvars

\* C10: read errors. A poll whose transport read fails returns the error at
\* once, the mapping is empty afterwards, and no later poll yields data.
C10_ReadError ==
    [][/\ rret'.read = "Err" =>
            /\ rret'.kind = "Err"
            /\ chunks' = EmptyMap
       /\ rret.kind = "Err" => rret'.kind # "Some"]_rvars

(***************************************************************************)
(* Properties of Connection.                                               *)
(***************************************************************************)
\* C4: single in-flight open. For each direction, conn.open_bi() / open_uni()
\* is called only by a poll that finds the slot empty, and a poll that returns
\* Pending leaves in the slot the operation it polled (the one that was there, if
\* any), with the transport's open primitive called once in total.
C4_SingleInFlightOpen ==
    [][/\ opens'.bi # opens.bi =>
            /\ opening_bi = None
            /\ opens'.bi = opens.bi + 1
            /\ cret'.op = "poll_open_bidi_stream"
       /\ opens'.uni # opens.uni =>
            /\ opening_uni = None
            /\ opens'.uni = opens.uni + 1
            /\ cret'.op = "poll_open_send_stream"
       /\ (cret'.op = "poll_open_bidi_stream" /\ cret'.kind = "Pending") =>
            /\ opening_bi' # None
            /\ opening_bi'.val.id = cret'.polled
            /\ opening_bi # None => opening_bi' = opening_bi
            /\ opens'.bi = 1
       /\ (cret'.op = "poll_open_send_stream" /\ cret'.kind = "Pending") =>
            /\ opening_uni' # None
            /\ opening_uni'.val.id = cret'.polled
            /\ opening_uni # None => opening_uni' = opening_uni
            /\ opens'.uni = 1]_cvars

\* a poll resumed the operation already in flight and it is still pending
C4_Witness ==
    /\ cret.op = "poll_open_bidi_stream"
    /\ cret.kind = "Pending"
    /\ cret.resumed
    /\ ~cret.repoll
    /\ opening_bi = Some(OpenOp(1, FALSE))
    /\ opens.bi = 1

\* C5: the open slot is cleared on completion. When an open poll has returned
\* Ready (a stream or an error) the slot of its direction is empty, and no open
\* poll polls an operation that had already completed.
C5_SlotCleared ==
    /\ (cret.op = "poll_open_bidi_stream" /\ cret.kind \in {"Ok", "Err"})
          => opening_bi = None
    /\ (cret.op = "poll_open_send_stream" /\ cret.kind \in {"Ok", "Err"})
          => opening_uni = None
    /\ ~cret.repoll

(***************************************************************************)
(* Properties of SendStream.                                               *)
(***************************************************************************)
\* C6: write single-slot enforcement. send_data with a buffer pending returns
\* NotReady, keeps the pending buffer and writes nothing to the transport;
\* with no buffer pending it stores its buffer and returns Ok.
C6_SingleSlot ==
    [][sret'.op = "send_data" =>
         IF writing.kind = "Some"
         THEN /\ sret'.kind = "NotReady"
              /\ writing' = writing
              /\ sent' = sent
         ELSE /\ sret'.kind = "Ok"
              /\ writing' = Some(sret'.arg)
              /\ sent' = sent]_svars

\* a second, different buffer was refused while the first is pending
C6_Witness ==
    /\ sret.op = "send_data"
    /\ sret.kind = "NotReady"
    /\ writing.kind = "Some"
    /\ writing.val # sret.arg
    /\ Len(writing.val) > 0

\* C7: readiness protocol of poll_ready. With a buffer pending, a poll in which
\* the transport takes fewer than all of the buffer's bytes (and does not fail)
\* returns Pending and keeps the buffer; a poll in which the buffer is fully
\* written returns Ready(Ok) with the slot cleared. With no buffer pending it
\* returns Ready(Ok) and writes nothing. After Ready(Ok) the next send_data is
\* accepted.
C7_Readiness ==
    [][/\ sret'.op = "poll_ready" =>
            IF writing.kind = "Some"
            THEN LET all == Remaining(writing.val) IN
                 /\ sret'.wrote <= Len(all)
                 /\ sent' = sent \o SubSeq(all, 1, sret'.wrote)
                 /\ (sret'.wrote < Len(all) /\ sret'.kind # "Err") =>
                       (sret'.kind = "Pending" /\ writing' = writing)
                 /\ sret'.kind = "Pending" =>
                       (sret'.wrote < Len(all) /\ writing' = writing)
                 /\ sret'.wrote = Len(all) => sret'.kind = "Ok"
                 /\ sret'.kind = "Ok" =>
                       (writing' = None /\ sent' = sent \o all)
            ELSE /\ sret'.kind = "Ok"
                 /\ writing' = None
                 /\ sent' = sent
       /\ (sret.op = "poll_ready" /\ sret.kind = "Ok" /\ sret'.op = "send_data") =>
            (sret'.kind = "Ok" /\ writing' = Some(sret'.arg))]_svars

(***************************************************************************)
(* Properties of SendStream::poll_ready on a failed write.                 *)
(***************************************************************************)
\* C11: when the write of the pending buffer fails, poll_ready returns the
\* error, the `writing` slot no longer holds the buffer, and the poll_ready
\* that follows hands none of that buffer's bytes to the transport.
C11_WriteFailure ==
    [][/\ (sret'.op = "poll_ready" /\ sret'.kind = "Err") => writing' = None
       /\ (/\ sret.op = "poll_ready" /\ sret.kind = "Err"
           /\ sret'.op = "poll_ready") => sent' = sent]_vars

(***************************************************************************)
(* Properties of BidiStream and its halves.                                *)
(***************************************************************************)
\* C12: the two halves of a bidirectional stream are independent, split or
\* not: a step in which a send-side call acts (send_data, poll_ready,
\* poll_finish, reset) leaves the receive side's cursor, buffered chunks and
\* transport input as they were, and a step in which a receive-side call acts
\* (poll_data, stop_sending) leaves the pending buffer and the bytes sent as
\* they were.
C12_SplitIndependence ==
    [][/\ (sret' # sret \/ writing' # writing \/ sent' # sent)
            => UNCHANGED <<offset, chunks, yielded, wire, rret>>
       /\ (rret' # rret \/ offset' # offset \/ chunks' # chunks)
            => UNCHANGED <<writing, sent, wlog, sret>>]_vars

\* both halves hold state after the split: a chunk yielded, one still
\* buffered, a buffer pending, and a reset as the last send-side call
C12_Witness ==
    /\ bidi = "split"
    /\ offset > 0
    /\ chunks # EmptyMap
    /\ writing.kind = "Some"
    /\ sret.op = "reset"

(***************************************************************************)
(* Properties of the error codes of reset and stop_sending.                *)
(***************************************************************************)
\* C13: reset never fails, whatever 64-bit code it is given: it passes a code
\* of at most 2^62 - 1 to the transport unchanged and passes 2^62 - 1 for a
\* larger one.  stop_sending passes a code of at most 2^62 - 1 unchanged and
\* panics for a larger one.  What the transport's reset / stop call returns is
\* ignored, and neither call changes the pending buffer, the cursor or the
\* buffered chunks.
C13_ErrorCodes ==
    [][/\ (sret' # sret /\ sret'.op = "reset") =>
            /\ sret'.kind = "Done"
            /\ sret'.tres \in Signal
            /\ sret'.sig = IF Leq(sret'.arg, VarIntMax) THEN sret'.arg
                           ELSE VarIntMax
            /\ UNCHANGED <<writing, sent, wlog, offset, chunks>>
       /\ (rret' # rret /\ rret'.arg # NoCode) =>
            /\ rret'.kind = IF Leq(rret'.arg, VarIntMax) THEN "Stop" ELSE "Panic"
            /\ rret'.kind = "Stop" => rret'.sig = rret'.arg /\ rret'.tres \in Signal
            /\ rret'.kind = "Panic" => rret'.sig = NoCode
            /\ UNCHANGED <<writing, sent, wlog, offset, chunks>>]_vars

\* a reset with code 2^64 - 1 that the transport refused, after a
\* stop_sending with code 2^62 - 1 that the transport refused
C13_Witness ==
    /\ sret.op = "reset"
    /\ sret.arg = U64Max
    /\ sret.sig = VarIntMax
    /\ sret.tres = "Err"
    /\ rret.kind = "Stop"
    /\ rret.arg = VarIntMax
    /\ rret.tres = "Err"
    /\ writing.kind = "Some"

(***************************************************************************)
(* Properties of Connection::poll_accept_*.                                *)
(***************************************************************************)
\* C14: an accept poll returns Pending when the source of incoming streams is
\* pending, Ready(Ok(None)) when the source is exhausted, Ready(Err) when the
\* source gives a connection error, and otherwise a new stream with cursor 0,
\* no buffered chunk and no pending write.  An accept poll leaves both open
\* slots and the opens begun as they were, and an open poll in one direction
\* leaves the other direction's slot as it was.
C14_AcceptPolling ==
    [][/\ (cret' # cret /\ cret'.op = "poll_accept_bidi_stream") =>
            /\ cret'.src = "Pending" => cret'.kind = "Pending"
            /\ cret'.src = "None" => cret'.kind = "OkNone"
            /\ cret'.src = "Err" => cret'.kind = "Err"
            /\ cret'.src = "Some" =>
                 /\ cret'.kind = "OkSome"
                 /\ cret'.stream.recv.offset = 0
                 /\ cret'.stream.recv.chunks = EmptyMap
                 /\ cret'.stream.send.writing = None
            /\ cret'.src # "Some" => cret'.stream = NoStream
            /\ UNCHANGED <<opening_bi, opening_uni, opens>>
       /\ (cret' # cret /\ cret'.op = "poll_accept_recv_stream") =>
            /\ cret'.src = "Pending" => cret'.kind = "Pending"
            /\ cret'.src = "None" => cret'.kind = "OkNone"
            /\ cret'.src = "Err" => cret'.kind = "Err"
            /\ cret'.src = "Some" =>
                 /\ cret'.kind = "OkSome"
                 /\ cret'.stream.offset = 0
                 /\ cret'.stream.chunks = EmptyMap
            /\ cret'.src # "Some" => cret'.stream = NoStream
            /\ UNCHANGED <<opening_bi, opening_uni, opens>>
       /\ (cret' # cret /\ cret'.op = "poll_open_bidi_stream") =>
            opening_uni' = opening_uni
       /\ (cret' # cret /\ cret'.op = "poll_open_send_stream") =>
            opening_bi' = opening_bi]_vars

\* a bidirectional stream accepted while an open is in flight in each direction
C14_Witness ==
    /\ cret.op = "poll_accept_bidi_stream"
    /\ cret.kind = "OkSome"
    /\ opening_bi.kind = "Some"
    /\ ~opening_bi.val.done
    /\ opening_uni.kind = "Some"
    /\ ~opening_uni.val.done

(***************************************************************************)
(* Properties of the receive buffer and the cursor.                        *)
(***************************************************************************)
\* C15, as stated: in every state between poll_data calls the mapping holds no
\* chunk whose starting offset is at most `offset`.
C15_BufferInvariant == \A k \in DOMAIN chunks : k > offset

\* C15, amended: after a poll_data that returned Pending or end-of-stream the
\* mapping holds no chunk whose starting offset is at most `offset`; after a
\* poll that returned a chunk such chunks may remain buffered.
C15_BufferInvariantOnIdle ==
    rret.kind \in {"Pending", "None"} => \A k \in DOMAIN chunks : k > offset

\* a poll returned Pending with a chunk buffered ahead of a cursor that has
\* moved
C15_Witness ==
    /\ rret.kind = "Pending"
    /\ chunks # EmptyMap
    /\ offset > 0

\* C16: `offset` never decreases and always equals the number of bytes
\* poll_data has returned so far: a poll that returns a chunk adds that chunk's
\* length, and a poll that returns Pending, end-of-stream or an error leaves
\* it unchanged.
C16_CursorAccounting ==
    /\ [](offset = Len(yielded))
    /\ [][/\ offset' >= offset
          /\ rret'.kind = "Some" =>
               /\ offset' = offset + Len(rret'.data)
               /\ yielded' = yielded \o rret'.data
          /\ rret'.kind \in {"Pending", "None", "Err"} =>
               offset' = offset /\ yielded' = yielded]_vars

\* a poll returned an overlapping chunk cut down to its new bytes, after an
\* earlier poll had moved the cursor
C16_Witness ==
    /\ rret.kind = "Some"
    /\ rret.data # <<>>
    /\ Len(rret.data) < rret.clen
    /\ offset = Len(yielded)
    /\ offset > Len(rret.data)

\* C17: poll_data returns Pending only when the transport's unordered read
\* polled in that same call returned Pending; it never returns Pending after
\* a read that returned Ready.
C17_WakeSoundness == rret.kind = "Pending" => rret.read = "Pending"

\* C19: inserting a chunk ahead of the cursor drops no buffered byte: a byte
\* covered by a buffered chunk before a poll is covered by a buffered chunk
\* after it unless the cursor has passed it, also when the new chunk starts
\* where a buffered one starts; and no two buffered chunks cover a common byte.
C19_NoBufferedByteLost ==
    /\ [](\A j, k \in DOMAIN chunks : j < k => j + Len(chunks[j]) <= k)
    /\ [][\A k \in DOMAIN chunks : \A b \in k .. (k + Len(chunks[k]) - 1) :
            \/ b < offset'
            \/ \E j \in DOMAIN chunks' : b \in j .. (j + Len(chunks'[j]) - 1)]_vars

(***************************************************************************)
(* Properties of what SendStream hands to the transport.                   *)
(***************************************************************************)
\* C18: each accepted buffer reaches the transport exactly once: while the
\* buffer is pending the bytes the transport has taken since send_data stored
\* it are the buffer's first bytes in order, so a poll_ready that resumes
\* after Pending sends no byte again, and when poll_ready returns Ready(Ok)
\* they are exactly the buffer.
C18_ExactlyOnceWrite ==
    [][(sret'.op = "poll_ready" /\ writing.kind = "Some") =>
         /\ Len(wlog') <= Len(Remaining(writing.val))
         /\ wlog' = SubSeq(Remaining(writing.val), 1, Len(wlog'))
         /\ sret'.kind = "Ok" => wlog' = Remaining(writing.val)]_vars

\* C20: poll_finish does not return Ready(Ok) while a buffer accepted by
\* send_data is still pending.
C20_FinishAfterWrite ==
    (sret.op = "poll_finish" /\ sret.kind = "Ok") => writing = None

====
